---- MODULE Spec2Model ----
(***************************************************************************)
(* Model of src/vector.h: RawMemory<T> (an owner of one raw block) and     *)
(* Vector<T> (a RawMemory plus the number of live elements).               *)
(*                                                                         *)
(* The heap is a small set of blocks; a block is the sequence of its       *)
(* slots, and a slot is RAW (no object), MOVED (a live, moved-from object) *)
(* or the value of a live element.  Two Vector objects, "a" and "b", are   *)
(* created, modified, copied, moved, swapped and destroyed.  Every public  *)
(* member function is one action; the action runs the whole body of the    *)
(* function on a small machine (heap + exception state), including the     *)
(* unwinding of its locals when an exception leaves it.                    *)
(*                                                                         *)
(* Failures are injected by numbering the fallible steps of a call         *)
(* (allocations, element constructions, copies and assignments, and moves  *)
(* when T's move may throw); the call's input failAt names the step that   *)
(* throws, 0 meaning none.  The build is the assertion-enabled one.        *)
(***************************************************************************)
EXTENDS Integers, Sequences, FiniteSets, TLC

\* ------------------------------------------------------------------ bounds
MaxVal  == 2      \* element values passed by callers are 1..MaxVal
MaxSize == 3      \* largest argument of Vector(n), Resize(n), Reserve(n)

\* a program with one vector: the allocator can hand out the slots of a
\* full block and of the block that replaces it; any of the first MaxFail
\* fallible steps of a call may be chosen to throw
MaxHeap == 2 * MaxSize
MaxFail == MaxSize + 1
\* a program with two vectors: smaller arguments, and room for both
\* vectors and the temporary of a copy assignment
PairSize == (MaxSize + 1) \div 2
PairHeap == 2 * PairSize + 1
\* a program that only appends: up to MaxAppend elements, and room for the
\* largest block and the one it replaces
MaxAppend == 2 * MaxSize
AppendHeap == 3 * MaxAppend

\* --------------------------------------------------------------- encodings
RAW     == -1     \* a slot of raw memory: no object lives there
MOVED   == -2     \* a live object that has been moved from
DEFAULT == 0      \* T(): the value-initialised element
SizeBits == 16    \* width of size_t in the model (size_ wraps modulo 2^SizeBits)

SizeMod == 2 ^ SizeBits
Vals    == 1..MaxVal
Elem    == 0..MaxVal
Vec     == {"a", "b"}
NBlocks == Cardinality(Vec) + 1     \* one block per vector and one local
Blocks  == 1..NBlocks
NULL    == 0                        \* nullptr

VARIABLES heap,      \* heap[p]: the slots of block p, << >> when p is not allocated
          vec,       \* vec[v]: the members data_ (buffer_, capacity_) and size_
          alive,     \* alive[v]: v has been constructed and not yet destroyed
          nothrow,   \* std::is_nothrow_move_constructible_v<T>
          heapLimit, \* the number of slots the allocator can hand out in total
          status,    \* "running", "aborted" (assert), "crashed" (undefined behaviour)
          last,      \* the call just made: function, arguments, outcome, result
          made       \* blocks allocated and elements constructed by the appends so far

vars == <<heap, vec, alive, nothrow, heapLimit, status, last, made>>

\* ------------------------------------------------------------- the machine
\* heap: the heap; step: fallible steps done; failAt: the step that throws;
\* exc: an exception is in flight; raised: some step has thrown;
\* abort: an assertion has failed; oom: a request went beyond heapLimit;
\* ptr: the result of the last allocation; ev: lifetime errors seen;
\* allocs: blocks allocated; ctors: elements constructed (new, copied, moved)
Mach(h, f) ==
  [heap |-> h, step |-> 0, failAt |-> f, exc |-> FALSE, raised |-> FALSE,
   abort |-> FALSE, oom |-> FALSE, ptr |-> NULL, ev |-> {}, allocs |-> 0, ctors |-> 0]

Halted(m) == m.exc \/ m.abort
\* assert(cond) of <cassert>, NDEBUG not defined
Require(m, cond) == IF Halted(m) \/ cond THEN m ELSE [m EXCEPT !.abort = TRUE]

Fails(m) == m.step + 1 = m.failAt
Throw(m) == [m EXCEPT !.step = @ + 1, !.exc = TRUE, !.raised = TRUE]
Pass(m)  == [m EXCEPT !.step = @ + 1]
Note(m, cond, e) == IF cond THEN [m EXCEPT !.ev = @ \cup {e}] ELSE m

InBlock(h, p, i) == p \in Blocks /\ i >= 0 /\ i < Len(h[p])
Get(h, p, i) == IF InBlock(h, p, i) THEN h[p][i + 1] ELSE RAW
Put(h, p, i, x) == IF InBlock(h, p, i) THEN [h EXCEPT ![p][i + 1] = x] ELSE h
IsLive(x) == x # RAW

RECURSIVE SumLen(_, _)
SumLen(h, p) == IF p = 0 THEN 0 ELSE Len(h[p]) + SumLen(h, p - 1)
HeapUsed(h) == SumLen(h, NBlocks)
FreeBlock(h) == CHOOSE p \in Blocks : h[p] = << >> /\ \A q \in Blocks : h[q] = << >> => p <= q

\* an allocator whose failed request leaves a block behind
AllocateLeavesBlock(m, n) ==
  IF Halted(m) THEN m
  ELSE IF n = 0 THEN [m EXCEPT !.ptr = NULL]
  ELSE IF HeapUsed(m.heap) + n > heapLimit \/ \A p \in Blocks : m.heap[p] # << >>
       THEN [Throw(m) EXCEPT !.ptr = NULL, !.oom = TRUE]
  ELSE LET p == FreeBlock(m.heap)
           h == [m.heap EXCEPT ![p] = [i \in 1..n |-> RAW]]
       IN IF Fails(m) THEN [Throw(m) EXCEPT !.heap = h, !.ptr = NULL]
          ELSE [Pass(m) EXCEPT !.heap = h, !.ptr = p, !.allocs = @ + 1]

\* RawMemory::Allocate: n = 0 allocates nothing; operator new may throw
Allocate(m, n) ==
  IF Halted(m) THEN m
  ELSE IF n = 0 THEN [m EXCEPT !.ptr = NULL]
  ELSE IF Fails(m) THEN [Throw(m) EXCEPT !.ptr = NULL]
  ELSE IF HeapUsed(m.heap) + n > heapLimit \/ \A p \in Blocks : m.heap[p] # << >>
       THEN [Throw(m) EXCEPT !.ptr = NULL, !.oom = TRUE]
  ELSE LET p == FreeBlock(m.heap)
       IN [Pass(m) EXCEPT !.heap = [@ EXCEPT ![p] = [i \in 1..n |-> RAW]], !.ptr = p,
                          !.allocs = @ + 1]

\* RawMemory::Deallocate: operator delete; runs during unwinding as well
Deallocate(m, p) ==
  IF p = NULL THEN m
  ELSE LET m1 == Note(m, m.heap[p] = << >>, "double_free")
           m2 == Note(m1, \E i \in 1..Len(m.heap[p]) : IsLive(m.heap[p][i]), "leak")
       IN [m2 EXCEPT !.heap = [@ EXCEPT ![p] = << >>]]

\* RawMemory(size_t capacity) and RawMemory(): the object is (buffer_, capacity_)
RawMemory(buf, cap) == [buffer_ |-> buf, capacity_ |-> cap]
EmptyRawMemory == RawMemory(NULL, 0)

\* a Swap that exchanges the buffers and forgets the capacities
RawSwapKeepsCapacity(x, y) == <<RawMemory(y.buffer_, x.capacity_), RawMemory(x.buffer_, y.capacity_)>>

\* RawMemory::Swap: returns the pair (this, other) after the exchange
RawSwap(x, y) == <<RawMemory(y.buffer_, y.capacity_), RawMemory(x.buffer_, x.capacity_)>>

\* the argument of PushBack, EmplaceBack, Insert and Emplace is a reference:
\* to an object of the caller that holds the value val (Val), or to the
\* element in slot off of block buf (Ref), which is read when the new element
\* is constructed from it
Val(x) == [ref |-> FALSE, val |-> x, buf |-> NULL, off |-> 0]
Ref(b, i) == [ref |-> TRUE, val |-> 0, buf |-> b, off |-> i]
Deref(m, a) == IF a.ref THEN Get(m.heap, a.buf, a.off) ELSE a.val

\* new (p + i) T(args...): construction of an element from the argument a
ConstructAt(m, p, i, a) ==
  IF Halted(m) THEN m
  ELSE IF Fails(m) THEN Throw(m)
  ELSE LET m1 == Note(Note(Note(m, ~InBlock(m.heap, p, i), "out_of_block"),
                           IsLive(Get(m.heap, p, i)), "overwrite_live"),
                      ~IsLive(Deref(m, a)), "read_raw")
       IN [Pass(m1) EXCEPT !.heap = Put(@, p, i, Deref(m, a)), !.ctors = @ + 1]

\* std::destroy_n(p + off, n): destructors do not throw
DestroyN(m, p, off, n) ==
  IF Halted(m) \/ n <= 0 THEN m
  ELSE LET m1 == Note(Note(m, \E i \in off..(off + n - 1) : ~IsLive(Get(m.heap, p, i)), "destroy_raw"),
                      \E i \in off..(off + n - 1) : ~InBlock(m.heap, p, i), "out_of_block")
       IN IF p \in Blocks
          THEN [m1 EXCEPT !.heap = [@ EXCEPT ![p] =
                  [j \in 1..Len(@) |-> IF j - 1 \in off..(off + n - 1) THEN RAW ELSE @[j]]]]
          ELSE m1

\* the slots dst[doff .. doff+n) after a transfer of src[soff .. soff+n)
Filled(h, src, soff, n, dst, doff) ==
  IF dst \in Blocks
  THEN [h EXCEPT ![dst] = [j \in 1..Len(@) |->
          IF j - 1 \in doff..(doff + n - 1) THEN Get(h, src, soff + (j - 1 - doff)) ELSE @[j]]]
  ELSE h

\* std::uninitialized_copy_n(src + soff, n, dst + doff): the k-th copy may
\* throw; the copies already made are then destroyed and the exception goes on
UninitializedCopyN(m, src, soff, n, dst, doff) ==
  IF Halted(m) \/ n <= 0 THEN m
  ELSE LET k == m.failAt - m.step
       IN IF k \in 1..n
          THEN [m EXCEPT !.step = @ + k, !.exc = TRUE, !.raised = TRUE, !.ctors = @ + k - 1]
          ELSE LET m1 == Note(m, \E i \in soff..(soff + n - 1) : ~IsLive(Get(m.heap, src, i)), "read_raw")
               IN [m1 EXCEPT !.step = @ + n, !.heap = Filled(@, src, soff, n, dst, doff),
                             !.ctors = @ + n]

\* the source slots after their objects have been moved from
MovedFrom(h, src, soff, n) ==
  IF src \in Blocks
  THEN [h EXCEPT ![src] = [j \in 1..Len(@) |->
          IF j - 1 \in soff..(soff + n - 1) THEN MOVED ELSE @[j]]]
  ELSE h

\* std::uninitialized_move_n(src + soff, n, dst + doff), used only when T's
\* move constructor is noexcept
UninitializedMoveN(m, src, soff, n, dst, doff) ==
  IF Halted(m) \/ n <= 0 THEN m
  ELSE LET m1 == Note(m, \E i \in soff..(soff + n - 1) : ~IsLive(Get(m.heap, src, i)), "read_raw")
       IN [m1 EXCEPT !.heap = MovedFrom(Filled(@, src, soff, n, dst, doff), src, soff, n),
                     !.ctors = @ + n]

\* std::uninitialized_value_construct_n(p + off, n): T() may throw, with rollback
UninitializedValueConstructN(m, p, off, n) ==
  IF Halted(m) \/ n <= 0 THEN m
  ELSE LET k == m.failAt - m.step
       IN IF k \in 1..n
          THEN [m EXCEPT !.step = @ + k, !.exc = TRUE, !.raised = TRUE, !.ctors = @ + k - 1]
          ELSE IF p \in Blocks
               THEN [m EXCEPT !.step = @ + n, !.ctors = @ + n, !.heap = [@ EXCEPT ![p] =
                       [j \in 1..Len(@) |-> IF j - 1 \in off..(off + n - 1) THEN DEFAULT ELSE @[j]]]]
               ELSE [m EXCEPT !.step = @ + n, !.ctors = @ + n]

\* *(to + i) = *(from + i) for i < n (Vector::CopyN): the k-th assignment may
\* throw, leaving the first k - 1 elements assigned
CopyN(m, from, to, n) ==
  IF Halted(m) \/ n <= 0 THEN m
  ELSE LET k == m.failAt - m.step
           done == IF k \in 1..n THEN k - 1 ELSE n
           m1 == Note(Note(m, \E i \in 0..(done - 1) : ~IsLive(Get(m.heap, from, i)), "read_raw"),
                      \E i \in 0..(done - 1) : ~IsLive(Get(m.heap, to, i)), "assign_raw")
           m2 == [m1 EXCEPT !.heap = Filled(@, from, 0, done, to, 0)]
       IN IF k \in 1..n
          THEN [m2 EXCEPT !.step = @ + k, !.exc = TRUE, !.raised = TRUE]
          ELSE [m2 EXCEPT !.step = @ + n]

\* new (p + di) T(std::move(p[si])): throws only when T's move may throw
MoveConstructAt(m, p, di, si) ==
  IF Halted(m) THEN m
  ELSE IF ~nothrow /\ Fails(m) THEN Throw(m)
  ELSE LET m1 == Note(Note(m, ~IsLive(Get(m.heap, p, si)), "read_raw"),
                      IsLive(Get(m.heap, p, di)), "overwrite_live")
           m2 == IF nothrow THEN m1 ELSE Pass(m1)
       IN [m2 EXCEPT !.heap = Put(Put(@, p, di, Get(@, p, si)), p, si, MOVED), !.ctors = @ + 1]

\* p[di] = std::move(p[si])
MoveAssignAt(m, p, di, si) ==
  IF Halted(m) THEN m
  ELSE IF ~nothrow /\ Fails(m) THEN Throw(m)
  ELSE LET m1 == Note(Note(m, ~IsLive(Get(m.heap, p, si)), "read_raw"),
                      ~IsLive(Get(m.heap, p, di)), "assign_raw")
           m2 == IF nothrow THEN m1 ELSE Pass(m1)
       IN [m2 EXCEPT !.heap = Put(Put(@, p, di, Get(@, p, si)), p, si, MOVED)]

\* p[di] = std::move(x) for a local object x
MoveAssignValue(m, p, di, x) ==
  IF Halted(m) THEN m
  ELSE IF ~nothrow /\ Fails(m) THEN Throw(m)
  ELSE LET m1 == Note(m, ~IsLive(Get(m.heap, p, di)), "assign_raw")
           m2 == IF nothrow THEN m1 ELSE Pass(m1)
       IN [m2 EXCEPT !.heap = Put(@, p, di, x)]

\* std::move(p + first, p + lst, p + dfirst): from the front to the back
RECURSIVE MoveRange(_, _, _, _, _)
MoveRange(m, p, first, lst, dfirst) ==
  IF first >= lst THEN Note(m, first > lst, "bad_range")
  ELSE MoveRange(MoveAssignAt(m, p, dfirst, first), p, first + 1, lst, dfirst + 1)

\* a shift to the right that runs from the front to the back
MoveBackwardFrontFirst(m, p, first, lst, dlast) ==
  MoveRange(m, p, first, lst, dlast - (lst - first))

\* std::move_backward(p + first, p + lst, p + dlast): from the back to the front
RECURSIVE MoveBackward(_, _, _, _, _)
MoveBackward(m, p, first, lst, dlast) ==
  IF first >= lst THEN Note(m, first > lst, "bad_range")
  ELSE MoveBackward(MoveAssignAt(m, p, dlast - 1, lst - 1), p, first, lst - 1, dlast - 1)

\* T new_t(args...): construction of a local object from the argument a
ConstructLocal(m, a) ==
  IF Halted(m) THEN m
  ELSE IF Fails(m) THEN Throw(m)
  ELSE [Pass(Note(m, ~IsLive(Deref(m, a)), "read_raw")) EXCEPT !.ctors = @ + 1]

\* a migration that moves even when T's move may throw: the k-th move
\* throws after k - 1 elements of the old storage have been moved from
MigrateByMove(m, src, soff, n, dst, doff) ==
  IF nothrow THEN UninitializedMoveN(m, src, soff, n, dst, doff)
  ELSE IF Halted(m) \/ n <= 0 THEN m
  ELSE LET k == m.failAt - m.step
       IN IF k \in 1..n
          THEN [m EXCEPT !.step = @ + k, !.exc = TRUE, !.raised = TRUE,
                         !.heap = MovedFrom(@, src, soff, k - 1)]
          ELSE [UninitializedMoveN(m, src, soff, n, dst, doff) EXCEPT !.step = @ + n]

\* the if constexpr of EmplaceBack and Reserve: move when T's move is noexcept,
\* copy otherwise
Migrate(m, src, soff, n, dst, doff) ==
  IF nothrow THEN UninitializedMoveN(m, src, soff, n, dst, doff)
  ELSE UninitializedCopyN(m, src, soff, n, dst, doff)

\* the destructor of a local RawMemory(n) when the scope is left by an
\* exception; m1 is the machine right after its construction
Unwind(m, m1, p) == IF m.abort \/ m1.exc THEN m ELSE Deallocate(m, p)

\* ------------------------------------------------------------------ Vector
Vector(rm, n) == [data_ |-> rm, size_ |-> n]
EmptyVector == Vector(EmptyRawMemory, 0)
Capacity(V) == V.data_.capacity_
Buf(V) == V.data_.buffer_
Ptr(b, o) == [buf |-> b, off |-> o]
NoPtr == Ptr(NULL, 0)
Res(m, self, ret) == [m |-> m, self |-> self, ret |-> ret]

\* a growth policy that triples the capacity
GrowthCapacityTriples(size) == IF size = 0 THEN 1 ELSE size * 3

\* a growth policy that adds one slot
GrowthCapacityPlusOne(size) == size + 1

\* the capacity of the new storage: size_ == 0 ? 1 : size_ * 2
GrowthCapacity(size) == IF size = 0 THEN 1 ELSE size * 2

\* Vector(size_t size)
VectorSized(m0, n) ==
  LET m1 == Allocate(m0, n)
      m2 == UninitializedValueConstructN(m1, m1.ptr, 0, n)
  IN IF Halted(m2) THEN Res(Unwind(m2, m1, m1.ptr), EmptyVector, NoPtr)
     ELSE Res(m2, Vector(RawMemory(m1.ptr, n), n), NoPtr)

\* a copy constructor that allocates the capacity of the source
VectorCopyOfCapacity(m0, O) ==
  LET m1 == Allocate(m0, Capacity(O))
      m2 == UninitializedCopyN(m1, Buf(O), 0, O.size_, m1.ptr, 0)
  IN IF Halted(m2) THEN Res(Unwind(m2, m1, m1.ptr), EmptyVector, NoPtr)
     ELSE Res(m2, Vector(RawMemory(m1.ptr, Capacity(O)), O.size_), NoPtr)

\* Vector(const Vector& other)
VectorCopy(m0, O) ==
  LET m1 == Allocate(m0, O.size_)
      m2 == UninitializedCopyN(m1, Buf(O), 0, O.size_, m1.ptr, 0)
  IN IF Halted(m2) THEN Res(Unwind(m2, m1, m1.ptr), EmptyVector, NoPtr)
     ELSE Res(m2, Vector(RawMemory(m1.ptr, O.size_), O.size_), NoPtr)

\* a Swap that exchanges the storage and leaves the sizes where they were
SwapKeepsSize(V, W) ==
  LET sw == RawSwap(V.data_, W.data_)
  IN <<Vector(sw[1], V.size_), Vector(sw[2], W.size_)>>

\* Vector::Swap: returns the pair (this, other) after the exchange
Swap(V, W) ==
  LET sw == RawSwap(V.data_, W.data_)
  IN <<Vector(sw[1], W.size_), Vector(sw[2], V.size_)>>

\* a move constructor that copies the members and leaves the source as it was
VectorMoveKeepsSource(O) == <<O, O>>

\* Vector(Vector&& other): a default-constructed object swapped with other
VectorMove(O) == Swap(EmptyVector, O)

\* a destructor that releases the block without destroying the elements
VectorDtorNoDestroy(m0, V) == Res(Deallocate(m0, Buf(V)), EmptyVector, NoPtr)

\* ~Vector(): destroy the live elements, then ~RawMemory() releases the block
VectorDtor(m0, V) ==
  LET m1 == DestroyN(m0, Buf(V), 0, V.size_)
  IN Res(Deallocate(m1, Buf(V)), EmptyVector, NoPtr)

\* a copy assignment that always builds a copy of rhs and swaps with it
CopyAssignAlwaysReplaces(m0, V, R) ==
  LET c  == VectorCopy(m0, R)
      sw == Swap(V, c.self)
  IN IF Halted(c.m) THEN Res(c.m, V, NoPtr)
     ELSE Res(VectorDtor(c.m, sw[2]).m, sw[1], NoPtr)

\* operator=(const Vector& rhs), this != &rhs
CopyAssign(m0, V, R) ==
  IF R.size_ > Capacity(V)
  THEN LET c  == VectorCopy(m0, R)                      \* Vector rhs_copy(rhs)
           sw == Swap(V, c.self)
       IN IF Halted(c.m) THEN Res(c.m, V, NoPtr)
          ELSE Res(VectorDtor(c.m, sw[2]).m, sw[1], NoPtr)
  ELSE IF V.size_ > R.size_
  THEN LET m1 == CopyN(m0, Buf(R), Buf(V), R.size_)
           m2 == DestroyN(m1, Buf(V), R.size_, V.size_ - R.size_)
       IN IF Halted(m2) THEN Res(m2, V, NoPtr)
          ELSE Res(m2, Vector(V.data_, R.size_), NoPtr)
  ELSE LET m1 == CopyN(m0, Buf(R), Buf(V), V.size_)
           m2 == UninitializedCopyN(m1, Buf(R), V.size_, R.size_ - V.size_, Buf(V), V.size_)
       IN IF Halted(m2) THEN Res(m2, V, NoPtr)
          ELSE Res(m2, Vector(V.data_, R.size_), NoPtr)

\* operator=(Vector&& rhs): returns the pair (this, rhs)
MoveAssign(V, R) == Swap(V, R)

\* operator[](size_t index)
At(m0, V, i) ==
  LET m1 == Require(m0, i < V.size_)
      m2 == Require(m1, i < Capacity(V))
  IN Res(m2, V, Ptr(Buf(V), i))

\* a Reserve that allocates at least twice the old capacity
ReserveAtLeastDouble(m0, V, c) ==
  IF c <= Capacity(V) THEN Res(m0, V, NoPtr)
  ELSE LET n  == IF c >= 2 * Capacity(V) THEN c ELSE 2 * Capacity(V)
           m1 == Allocate(m0, n)
           nd == RawMemory(m1.ptr, n)
           m2 == Migrate(m1, Buf(V), 0, V.size_, nd.buffer_, 0)
           m3 == DestroyN(m2, Buf(V), 0, V.size_)
           sw == RawSwap(V.data_, nd)
       IN IF Halted(m3) THEN Res(Unwind(m3, m1, nd.buffer_), V, NoPtr)
          ELSE Res(Deallocate(m3, sw[2].buffer_), Vector(sw[1], V.size_), NoPtr)

\* Reserve(new_capacity)
Reserve(m0, V, c) ==
  IF c <= Capacity(V) THEN Res(m0, V, NoPtr)
  ELSE LET m1 == Allocate(m0, c)
           nd == RawMemory(m1.ptr, c)
           m2 == Migrate(m1, Buf(V), 0, V.size_, nd.buffer_, 0)
           m3 == DestroyN(m2, Buf(V), 0, V.size_)
           sw == RawSwap(V.data_, nd)
       IN IF Halted(m3) THEN Res(Unwind(m3, m1, nd.buffer_), V, NoPtr)
          ELSE Res(Deallocate(m3, sw[2].buffer_), Vector(sw[1], V.size_), NoPtr)

\* a Resize that grows without constructing the new elements
ResizeNoConstruct(m0, V, n) ==
  IF V.size_ > n
  THEN Res(DestroyN(m0, Buf(V), n, V.size_ - n), Vector(V.data_, n), NoPtr)
  ELSE IF V.size_ < n
  THEN LET r == Reserve(m0, V, n)
       IN IF Halted(r.m) THEN Res(r.m, r.self, NoPtr)
          ELSE Res(r.m, Vector(r.self.data_, n), NoPtr)
  ELSE Res(m0, V, NoPtr)

\* Resize(new_size)
Resize(m0, V, n) ==
  IF V.size_ > n
  THEN Res(DestroyN(m0, Buf(V), n, V.size_ - n), Vector(V.data_, n), NoPtr)
  ELSE IF V.size_ < n
  THEN LET r  == Reserve(m0, V, n)
           m2 == UninitializedValueConstructN(r.m, Buf(r.self), V.size_, n - V.size_)
       IN IF Halted(m2) THEN Res(m2, r.self, NoPtr)
          ELSE Res(m2, Vector(r.self.data_, n), NoPtr)
  ELSE Res(m0, V, NoPtr)

\* an EmplaceBack that constructs the new element after the migration
EmplaceBackMigratesFirst(m0, V, x) ==
  IF V.size_ = Capacity(V)
  THEN LET c  == GrowthCapacity(V.size_)
           m1 == Allocate(m0, c)
           nd == RawMemory(m1.ptr, c)
           m3 == Migrate(m1, Buf(V), 0, V.size_, nd.buffer_, 0)
           m4 == DestroyN(m3, Buf(V), 0, V.size_)
           m5 == ConstructAt(m4, nd.buffer_, V.size_, x)
           sw == RawSwap(V.data_, nd)
       IN IF Halted(m5) THEN Res(Unwind(m5, m1, nd.buffer_), V, NoPtr)
          ELSE Res(Deallocate(m5, sw[2].buffer_), Vector(sw[1], V.size_ + 1),
                   Ptr(sw[1].buffer_, V.size_))
  ELSE LET m1 == ConstructAt(m0, Buf(V), V.size_, x)
       IN IF Halted(m1) THEN Res(m1, V, NoPtr)
          ELSE Res(m1, Vector(V.data_, V.size_ + 1), Ptr(Buf(V), V.size_))

\* EmplaceBack(args...): x is the argument the new element is constructed from
EmplaceBack(m0, V, x) ==
  IF V.size_ = Capacity(V)
  THEN LET c  == GrowthCapacity(V.size_)
           m1 == Allocate(m0, c)
           nd == RawMemory(m1.ptr, c)
           m2 == ConstructAt(Require(m1, V.size_ <= nd.capacity_), nd.buffer_, V.size_, x)
           m3 == Migrate(m2, Buf(V), 0, V.size_, nd.buffer_, 0)
           m4 == DestroyN(m3, Buf(V), 0, V.size_)
           sw == RawSwap(V.data_, nd)
       IN IF Halted(m4) THEN Res(Unwind(m4, m1, nd.buffer_), V, NoPtr)
          ELSE Res(Deallocate(m4, sw[2].buffer_), Vector(sw[1], V.size_ + 1),
                   Ptr(sw[1].buffer_, V.size_))
  ELSE LET m1 == ConstructAt(Require(m0, V.size_ <= Capacity(V)), Buf(V), V.size_, x)
       IN IF Halted(m1) THEN Res(m1, V, NoPtr)
          ELSE Res(m1, Vector(V.data_, V.size_ + 1), Ptr(Buf(V), V.size_))

\* PushBack(value)
PushBack(m0, V, x) == EmplaceBack(m0, V, x)

\* a PopBack that forgets the destructor of the last element
PopBackKeepsElement(m0, V) ==
  Res(m0, Vector(V.data_, (V.size_ - 1) % SizeMod), NoPtr)

\* PopBack(): no check that the vector is not empty; size_ is a size_t
PopBack(m0, V) ==
  LET m1 == DestroyN(Require(m0, V.size_ <= Capacity(V)), Buf(V), V.size_ - 1, 1)
  IN IF Halted(m1) THEN Res(m1, V, NoPtr)
     ELSE Res(m1, Vector(V.data_, (V.size_ - 1) % SizeMod), NoPtr)

\* the try/catch of Emplace around a copy of old elements: the handler
\* destroys n elements of the new storage from offset off and does not rethrow
CopyOrSwallow(m, src, soff, n, dst, doff, off, cnt) ==
  LET t == UninitializedCopyN(m, src, soff, n, dst, doff)
  IN IF t.exc /\ ~m.exc THEN DestroyN([t EXCEPT !.exc = FALSE], dst, off, cnt)
     ELSE t

\* an Emplace whose in-place path reads its argument after the shift
EmplaceShiftsFirst(m0, V, P, x) ==
  IF P = V.size_ \/ V.size_ = Capacity(V)
  THEN IF P = V.size_
       THEN EmplaceBack(Require(m0, V.size_ <= Capacity(V)), V, x)
       ELSE LET c  == GrowthCapacity(V.size_)
                m1 == Allocate(m0, c)
                nd == RawMemory(m1.ptr, c)
                m2 == ConstructAt(Require(m1, P <= nd.capacity_), nd.buffer_, P, x)
                m3 == IF nothrow
                      THEN UninitializedMoveN(m2, Buf(V), 0, P, nd.buffer_, 0)
                      ELSE CopyOrSwallow(m2, Buf(V), 0, P, nd.buffer_, 0, P, 1)
                m4 == IF nothrow
                      THEN UninitializedMoveN(m3, Buf(V), P, V.size_ - P, nd.buffer_, P + 1)
                      ELSE CopyOrSwallow(m3, Buf(V), P, V.size_ - P, nd.buffer_, P + 1, 0, P + 1)
                m5 == DestroyN(m4, Buf(V), 0, V.size_)
                sw == RawSwap(V.data_, nd)
            IN IF Halted(m5) THEN Res(Unwind(m5, m1, nd.buffer_), V, NoPtr)
               ELSE Res(Deallocate(m5, sw[2].buffer_), Vector(sw[1], V.size_ + 1),
                        Ptr(sw[1].buffer_, P))
  ELSE LET m2 == MoveConstructAt(Require(Require(m0, V.size_ <= Capacity(V)),
                                         V.size_ - 1 < Capacity(V)),
                                 Buf(V), V.size_, V.size_ - 1)
           m3 == MoveBackward(m2, Buf(V), P, V.size_ - 1, V.size_)
           m4 == ConstructLocal(m3, x)
           new_t == Deref(m3, x)
           m5 == MoveAssignValue(m4, Buf(V), P, new_t)
       IN IF Halted(m5) THEN Res(m5, V, NoPtr)
          ELSE Res(m5, Vector(V.data_, V.size_ + 1), Ptr(Buf(V), P))

\* Emplace(pos, args...), pos == begin() + P
Emplace(m0, V, P, x) ==
  IF P = V.size_
  THEN EmplaceBack(Require(m0, V.size_ <= Capacity(V)), V, x)
  ELSE IF V.size_ = Capacity(V)
  THEN LET c  == GrowthCapacity(V.size_)
           m1 == Allocate(m0, c)
           nd == RawMemory(m1.ptr, c)
           m2 == ConstructAt(Require(m1, P <= nd.capacity_), nd.buffer_, P, x)
           m3 == IF nothrow
                 THEN UninitializedMoveN(m2, Buf(V), 0, P, nd.buffer_, 0)
                 ELSE CopyOrSwallow(m2, Buf(V), 0, P, nd.buffer_, 0, P, 1)
           m4 == IF nothrow
                 THEN UninitializedMoveN(m3, Buf(V), P, V.size_ - P, nd.buffer_, P + 1)
                 ELSE CopyOrSwallow(m3, Buf(V), P, V.size_ - P, nd.buffer_, P + 1, 0, P + 1)
           m5 == DestroyN(m4, Buf(V), 0, V.size_)
           sw == RawSwap(V.data_, nd)
       IN IF Halted(m5) THEN Res(Unwind(m5, m1, nd.buffer_), V, NoPtr)
          ELSE Res(Deallocate(m5, sw[2].buffer_), Vector(sw[1], V.size_ + 1),
                   Ptr(sw[1].buffer_, P))
  ELSE LET m1 == ConstructLocal(m0, x)
           new_t == Deref(m0, x)
           m2 == MoveConstructAt(Require(Require(m1, V.size_ <= Capacity(V)),
                                         V.size_ - 1 < Capacity(V)),
                                 Buf(V), V.size_, V.size_ - 1)
           m3 == MoveBackward(m2, Buf(V), P, V.size_ - 1, V.size_)
           m4 == MoveAssignValue(m3, Buf(V), P, new_t)
       IN IF Halted(m4) THEN Res(m4, V, NoPtr)
          ELSE Res(m4, Vector(V.data_, V.size_ + 1), Ptr(Buf(V), P))

\* Insert(pos, value)
Insert(m0, V, P, x) == Emplace(m0, V, P, x)

\* an Erase that drops the last element instead of the one at pos
EraseNoShift(m0, V, P) ==
  LET m2 == DestroyN(m0, Buf(V), V.size_ - 1, 1)
  IN Res(m2, Vector(V.data_, (V.size_ - 1) % SizeMod), Ptr(Buf(V), P))

\* Erase(pos), pos == begin() + P
Erase(m0, V, P) ==
  LET m1 == MoveRange(Require(m0, V.size_ <= Capacity(V)), Buf(V), P + 1, V.size_, P)
      m2 == DestroyN(m1, Buf(V), V.size_ - 1, 1)
  IN IF Halted(m2) THEN Res(m2, V, NoPtr)
     ELSE Res(m2, Vector(V.data_, (V.size_ - 1) % SizeMod), Ptr(Buf(V), P))

\* ----------------------------------------------------------------- actions
\* lifetime errors whose behaviour is undefined
UBEvents == {"destroy_raw", "read_raw", "out_of_block", "assign_raw", "double_free", "bad_range"}

Size(v) == vec[v].size_
Cap(v)  == Capacity(vec[v])
Slot(v, i) == Get(heap, Buf(vec[v]), i)
\* the elements of v, slots [0, size_)
Contents(v) == [i \in 1..Size(v) |-> Slot(v, i - 1)]

\* v is an object whose member functions have defined behaviour: it is alive,
\* size_ <= capacity_ and the slots [0, size_) hold objects
Usable(v) ==
  /\ alive[v]
  /\ Size(v) <= Cap(v)
  /\ \A i \in 0..(Size(v) - 1) : IsLive(Slot(v, i))

NoCall == [op |-> "none", v |-> "a", o |-> "a", arg |-> 0, val |-> 0,
           outcome |-> "return", raised |-> FALSE, fail |-> 0, ev |-> {}, ret |-> NoPtr]

\* the effect of a call on the process: r is the result of the member
\* function, newvec the vectors after it; an assertion failure aborts, undefined
\* behaviour crashes (crash) or goes on, an exception leaves through the caller.
\* The call is recorded in last: raised says that a step of the call threw,
\* fail which one, ev the lifetime errors, ret the pointer returned.
\* A call whose allocation does not fit heapLimit is not explored.
Idle == status = "running" /\ last = NoCall

Effect(op, v, o, arg, val, r, crash, newvec) ==
  /\ ~r.m.oom
  /\ crash => (r.m.ev \cap UBEvents # {} /\ ~r.m.abort)
  /\ heap' = r.m.heap
  /\ vec' = IF r.m.abort \/ crash THEN vec ELSE newvec
  /\ status' = IF r.m.abort THEN "aborted" ELSE IF crash THEN "crashed" ELSE "running"
  /\ last' = [op |-> op, v |-> v, o |-> o, arg |-> arg, val |-> val,
              outcome |-> IF r.m.abort THEN "abort" ELSE IF crash THEN "crash"
                          ELSE IF r.m.exc THEN "throw" ELSE "return",
              raised |-> r.m.raised, fail |-> IF r.m.raised THEN r.m.failAt ELSE 0,
              ev |-> r.m.ev, ret |-> r.ret]
  /\ UNCHANGED <<nothrow, heapLimit>>

\* a call in a program that does not count allocations and constructions
Call(op, v, o, arg, val, r, crash, newvec) ==
  /\ Effect(op, v, o, arg, val, r, crash, newvec)
  /\ UNCHANGED made

\* no vector has been constructed yet
Start ==
  /\ heap = [p \in Blocks |-> << >>]
  /\ vec = [v \in Vec |-> EmptyVector]
  /\ alive = [v \in Vec |-> FALSE]
  /\ nothrow \in BOOLEAN
  /\ status = "running"
  /\ last = NoCall
  /\ made = [allocs |-> 0, ctors |-> 0]

Init == Start /\ heapLimit = MaxHeap
InitPair == Start /\ heapLimit = PairHeap
InitAppend == Start /\ heapLimit = AppendHeap

\* Vector v;
DoConstruct(v) ==
  /\ Idle
  /\ ~alive[v]
  /\ Call("Vector", v, v, 0, 0, Res(Mach(heap, 0), EmptyVector, NoPtr), FALSE,
          [vec EXCEPT ![v] = EmptyVector])
  /\ alive' = [alive EXCEPT ![v] = TRUE]

\* Vector v(n);
DoConstructSized(v, n, f) ==
  /\ Idle
  /\ ~alive[v]
  /\ LET r == VectorSized(Mach(heap, f), n)
     IN /\ Call("VectorSized", v, v, n, 0, r, FALSE,
                IF r.m.exc THEN vec ELSE [vec EXCEPT ![v] = r.self])
        /\ alive' = [alive EXCEPT ![v] = ~r.m.exc]

\* Vector v(o);
DoCopyConstruct(v, o, f) ==
  /\ Idle
  /\ ~alive[v] /\ o # v /\ Usable(o)
  /\ LET r == VectorCopy(Mach(heap, f), vec[o])
     IN /\ Call("VectorCopy", v, o, 0, 0, r, FALSE,
                IF r.m.exc THEN vec ELSE [vec EXCEPT ![v] = r.self])
        /\ alive' = [alive EXCEPT ![v] = ~r.m.exc]

\* Vector v(std::move(o));
DoMoveConstruct(v, o) ==
  /\ Idle
  /\ ~alive[v] /\ o # v /\ Usable(o)
  /\ LET sw == VectorMove(vec[o])
     IN Call("VectorMove", v, o, 0, 0, Res(Mach(heap, 0), sw[1], NoPtr), FALSE,
             [vec EXCEPT ![v] = sw[1], ![o] = sw[2]])
  /\ alive' = [alive EXCEPT ![v] = TRUE]

\* the end of v's lifetime
DoDestroy(v) ==
  /\ Idle
  /\ Usable(v)
  /\ LET r == VectorDtor(Mach(heap, 0), vec[v])
     IN Call("Dtor", v, v, 0, 0, r, FALSE, [vec EXCEPT ![v] = r.self])
  /\ alive' = [alive EXCEPT ![v] = FALSE]

\* v = o;  (o may be v itself: this == &rhs does nothing)
DoCopyAssign(v, o, f) ==
  /\ Idle
  /\ Usable(v) /\ Usable(o)
  /\ LET r == IF o = v THEN Res(Mach(heap, f), vec[v], NoPtr)
              ELSE CopyAssign(Mach(heap, f), vec[v], vec[o])
     IN Call("CopyAssign", v, o, 0, 0, r, FALSE, [vec EXCEPT ![v] = r.self])
  /\ UNCHANGED alive

\* v = std::move(o);
DoMoveAssign(v, o) ==
  /\ Idle
  /\ Usable(v) /\ Usable(o)
  /\ LET sw == MoveAssign(vec[v], vec[o])
     IN Call("MoveAssign", v, o, 0, 0, Res(Mach(heap, 0), sw[1], NoPtr), FALSE,
             [vec EXCEPT ![v] = sw[1], ![o] = sw[2]])
  /\ UNCHANGED alive

\* v.Swap(o);
DoSwap(v, o) ==
  /\ Idle
  /\ Usable(v) /\ Usable(o)
  /\ LET sw == Swap(vec[v], vec[o])
     IN Call("Swap", v, o, 0, 0, Res(Mach(heap, 0), sw[1], NoPtr), FALSE,
             [vec EXCEPT ![v] = sw[1], ![o] = sw[2]])
  /\ UNCHANGED alive

\* v[i]
DoAt(v, i) ==
  /\ Idle
  /\ Usable(v)
  /\ LET r == At(Mach(heap, 0), vec[v], i)
     IN Call("At", v, v, i, Slot(v, i), r, FALSE, vec)
  /\ UNCHANGED alive

\* v.Resize(n);
DoResize(v, n, f) ==
  /\ Idle
  /\ Usable(v)
  /\ LET r == Resize(Mach(heap, f), vec[v], n)
     IN Call("Resize", v, v, n, 0, r, FALSE, [vec EXCEPT ![v] = r.self])
  /\ UNCHANGED alive

\* v.Reserve(n);
DoReserve(v, n, f) ==
  /\ Idle
  /\ Usable(v)
  /\ LET r == Reserve(Mach(heap, f), vec[v], n)
     IN Call("Reserve", v, v, n, 0, r, FALSE, [vec EXCEPT ![v] = r.self])
  /\ UNCHANGED alive

\* v.PushBack(x);  v.EmplaceBack(x);
DoPushBack(v, x, f) ==
  /\ Idle
  /\ Usable(v)
  /\ LET r == PushBack(Mach(heap, f), vec[v], Val(x))
     IN Call("PushBack", v, v, 0, x, r, FALSE, [vec EXCEPT ![v] = r.self])
  /\ UNCHANGED alive

\* v.PopBack();  on an empty vector the behaviour is undefined
DoPopBack(v, crash) ==
  /\ Idle
  /\ Usable(v)
  /\ LET r == PopBack(Mach(heap, 0), vec[v])
     IN Call("PopBack", v, v, 0, 0, r, crash, [vec EXCEPT ![v] = r.self])
  /\ UNCHANGED alive

\* v.Insert(v.begin() + P, x);  v.Emplace(v.begin() + P, x);
DoInsert(v, P, x, f) ==
  /\ Idle
  /\ Usable(v) /\ P \in 0..Size(v)
  /\ LET r == Insert(Mach(heap, f), vec[v], P, Val(x))
     IN Call("Insert", v, v, P, x, r, FALSE, [vec EXCEPT ![v] = r.self])
  /\ UNCHANGED alive

\* v.Erase(v.begin() + P);  P == size_ is end(), outside the valid range
DoErase(v, P, f, crash) ==
  /\ Idle
  /\ Usable(v) /\ P \in 0..Size(v)
  /\ LET r == Erase(Mach(heap, f), vec[v], P)
     IN Call("Erase", v, v, P, 0, r, crash, [vec EXCEPT ![v] = r.self])
  /\ UNCHANGED alive

\* v.PushBack(x) in a program that only appends to one vector and counts
\* the blocks allocated and the elements constructed
DoAppend(v, x) ==
  /\ Idle
  /\ Usable(v) /\ Size(v) < MaxAppend
  /\ LET r == PushBack(Mach(heap, 0), vec[v], Val(x))
     IN /\ Effect("PushBack", v, v, 0, x, r, FALSE, [vec EXCEPT ![v] = r.self])
        /\ made' = [allocs |-> made.allocs + r.m.allocs, ctors |-> made.ctors + r.m.ctors]
  /\ UNCHANGED alive

\* v.PushBack(v[i]);  the argument refers to an element of v itself; the
\* call is recorded with the index i as its val
DoPushBackOwn(v, i) ==
  /\ Idle
  /\ Usable(v) /\ i < Size(v)
  /\ LET r == PushBack(Mach(heap, 0), vec[v], Ref(Buf(vec[v]), i))
     IN Call("PushBackOwn", v, v, 0, i, r, FALSE, [vec EXCEPT ![v] = r.self])
  /\ UNCHANGED alive

\* v.Insert(v.begin() + P, v[i]);
DoInsertOwn(v, P, i) ==
  /\ Idle
  /\ Usable(v) /\ P \in 0..Size(v) /\ i < Size(v)
  /\ LET r == Insert(Mach(heap, 0), vec[v], P, Ref(Buf(vec[v]), i))
     IN Call("InsertOwn", v, v, P, i, r, FALSE, [vec EXCEPT ![v] = r.self])
  /\ UNCHANGED alive

\* the caller has looked at the outcome of its call and goes on
Continue ==
  /\ status = "running" /\ last # NoCall
  /\ last' = NoCall
  /\ UNCHANGED <<heap, vec, alive, nothrow, heapLimit, status, made>>

\* a program with one vector, any step of whose calls may throw
One == {"a"}
Fail == 0..MaxFail
Next ==
  \/ \E v \in One : DoConstruct(v)
  \/ \E v \in One, n \in 0..MaxSize, f \in Fail : DoConstructSized(v, n, f)
  \/ \E v \in One : DoDestroy(v)
  \/ \E v \in One, f \in Fail : DoCopyAssign(v, v, f)
  \/ \E v \in One : DoMoveAssign(v, v)
  \/ \E v \in One : DoSwap(v, v)
  \/ \E v \in One, i \in 0..MaxSize : DoAt(v, i)
  \/ \E v \in One, n \in 0..MaxSize, f \in Fail : DoResize(v, n, f)
  \/ \E v \in One, n \in 0..MaxSize, f \in Fail : DoReserve(v, n, f)
  \/ \E v \in One, x \in Vals, f \in Fail : DoPushBack(v, x, f)
  \/ \E v \in One, crash \in BOOLEAN : DoPopBack(v, crash)
  \/ \E v \in One, P \in 0..MaxHeap, x \in Vals, f \in Fail : DoInsert(v, P, x, f)
  \/ \E v \in One, P \in 0..MaxHeap, f \in Fail, crash \in BOOLEAN : DoErase(v, P, f, crash)
  \/ \E v \in One, i \in 0..MaxHeap : DoPushBackOwn(v, i)
  \/ \E v \in One, P \in 0..MaxHeap, i \in 0..MaxHeap : DoInsertOwn(v, P, i)
  \/ Continue

Spec == Init /\ [][Next]_vars

\* a program with two vectors that constructs, modifies, copies, moves, swaps
\* and destroys them; any step of a copy may throw, and the first fallible
\* step of any other call
First == 0..1
NextPair ==
  \/ \E v \in Vec : DoConstruct(v)
  \/ \E v \in Vec, n \in 0..PairSize, f \in First : DoConstructSized(v, n, f)
  \/ \E v \in Vec, o \in Vec, f \in Fail : DoCopyConstruct(v, o, f)
  \/ \E v \in Vec, o \in Vec : DoMoveConstruct(v, o)
  \/ \E v \in Vec : DoDestroy(v)
  \/ \E v \in Vec, o \in Vec, f \in Fail : DoCopyAssign(v, o, f)
  \/ \E v \in Vec, o \in Vec : DoMoveAssign(v, o)
  \/ \E v \in Vec, o \in Vec : DoSwap(v, o)
  \/ \E v \in Vec, n \in 0..PairSize, f \in First : DoResize(v, n, f)
  \/ \E v \in Vec, n \in 0..PairSize, f \in First : DoReserve(v, n, f)
  \/ \E v \in Vec, x \in Vals, f \in First : DoPushBack(v, x, f)
  \/ \E v \in Vec, crash \in BOOLEAN : DoPopBack(v, crash)
  \/ \E v \in Vec, P \in 0..MaxHeap, x \in Vals, f \in First : DoInsert(v, P, x, f)
  \/ \E v \in Vec, P \in 0..MaxHeap, f \in First, crash \in BOOLEAN : DoErase(v, P, f, crash)
  \/ Continue

SpecPair == InitPair /\ [][NextPair]_vars

\* a program that constructs an empty vector and appends to it, one element
\* at a time
NextAppend ==
  \/ \E v \in One : DoConstruct(v)
  \/ \E v \in One, x \in Vals : DoAppend(v, x)
  \/ Continue

SpecAppend == InitAppend /\ [][NextAppend]_vars

\* ------------------------------------------------------------------ claims
ContentsIn(h, V) == [i \in 1..V.size_ |-> Get(h, Buf(V), i - 1)]
InsertSeq(s, P, x) == SubSeq(s, 1, P) \o <<x>> \o SubSeq(s, P + 1, Len(s))
RemoveSeq(s, P) == SubSeq(s, 1, P) \o SubSeq(s, P + 2, Len(s))
Max(x, y) == IF x >= y THEN x ELSE y
Min(x, y) == IF x <= y THEN x ELSE y

\* this step is a call of op that returned and in which no step threw
Did(op) == last'.op = op /\ last'.outcome = "return" /\ ~last'.raised
\* the call recorded in last is a call of op that returned and in which no step threw
Done(op) == last.op = op /\ last.outcome = "return" /\ ~last.raised
\* this step is a call in which nothing threw and no precondition was violated
NoFailure == last'.outcome = "return" /\ ~last'.raised /\ last'.ev \cap UBEvents = {}

\* size_ <= capacity_, the block has capacity_ slots, the slots [0, size_)
\* hold elements and the slots [size_, capacity_) are raw
WellFormed(h, V) ==
  /\ 0 <= V.size_ /\ V.size_ <= Capacity(V)
  /\ (Buf(V) = NULL) <=> (Capacity(V) = 0)
  /\ Buf(V) # NULL => Len(h[Buf(V)]) = Capacity(V)
  /\ \A i \in 0..(V.size_ - 1) : Get(h, Buf(V), i) \in Elem
  /\ \A i \in V.size_..(Capacity(V) - 1) : Get(h, Buf(V), i) = RAW

\* C1: a call in which nothing fails and no precondition is violated, made
\* when every vector satisfies 0 <= size <= capacity with elements in
\* [0, size) and raw slots in [size, capacity), leaves every vector so; no
\* vector exists at the start, so every sequence of such calls keeps it.
C1_SizeCapacityInvariant ==
  /\ \A v \in Vec : alive[v] => WellFormed(heap, vec[v])
  /\ [][(NoFailure /\ \A v \in Vec : alive[v] => WellFormed(heap, vec[v]))
          => \A v \in Vec : alive'[v] => WellFormed(heap', vec'[v])]_vars

C1_Witness ==
  /\ Done("Insert") /\ last.v = "b"
  /\ alive["a"] /\ alive["b"]
  /\ Size("a") = 1 /\ Size("b") = 2 /\ Cap("b") = 2

\* C2: an Insert of x at P that returns yields s[0..P) ++ [x] ++ s[P..size),
\* one element more, and a pointer to slot P of the vector, which holds x.
C2_InsertYields ==
  [][Did("Insert") =>
       LET v == last'.v
           P == last'.arg
           x == last'.val
       IN /\ ContentsIn(heap', vec'[v]) = InsertSeq(Contents(v), P, x)
          /\ vec'[v].size_ = Size(v) + 1
          /\ last'.ret = Ptr(Buf(vec'[v]), P)
          /\ Get(heap', last'.ret.buf, last'.ret.off) = x]_vars

C2_Witness ==
  /\ Done("Insert") /\ last.v = "a" /\ last.arg = 1 /\ last.val = 1
  /\ Contents("a") = <<1, 1, 2>> /\ Cap("a") = 4

\* C3: an Erase at P < size that returns yields s[0..P) ++ s[P+1..size), one
\* element less, the same capacity and block, and a pointer to slot P, which
\* holds the element that followed the erased one or is end().
C3_EraseYields ==
  [][(Did("Erase") /\ last'.arg < Size(last'.v)) =>
       LET v == last'.v
           P == last'.arg
       IN /\ ContentsIn(heap', vec'[v]) = RemoveSeq(Contents(v), P)
          /\ vec'[v].size_ = Size(v) - 1
          /\ vec'[v].data_ = vec[v].data_
          /\ last'.ret = Ptr(Buf(vec[v]), P)
          /\ IF P < Size(v) - 1
             THEN Get(heap', last'.ret.buf, last'.ret.off) = Slot(v, P + 1)
             ELSE last'.ret.off = vec'[v].size_]_vars

C3_Witness ==
  /\ Done("Erase") /\ last.v = "a" /\ last.arg = 1
  /\ Contents("a") = <<1, 2>> /\ Cap("a") = 4

\* C4: a PushBack of x that returns yields s ++ [x]; with size < capacity
\* the block and the capacity are the same, with size = capacity the new
\* capacity is max(1, 2 * size).
C4_PushBackYields ==
  [][Did("PushBack") =>
       LET v == last'.v
           x == last'.val
       IN /\ ContentsIn(heap', vec'[v]) = Append(Contents(v), x)
          /\ vec'[v].size_ = Size(v) + 1
          /\ Size(v) < Cap(v) => vec'[v].data_ = vec[v].data_
          /\ Size(v) = Cap(v) => Capacity(vec'[v]) = Max(1, 2 * Size(v))]_vars

C4_Witness ==
  /\ Done("PushBack") /\ last.v = "a" /\ last.val = 2
  /\ Contents("a") = <<1, 2, 2>> /\ Cap("a") = 4

\* C5: with size = capacity, a PushBack or Insert whose construction of the
\* new element throws (the second fallible step, after the allocation)
\* throws to the caller and leaves the vector and the heap as they were.
C5_FailedConstructionLeavesVector ==
  [][(last'.op \in {"PushBack", "Insert"} /\ last'.fail = 2
        /\ Size(last'.v) = Cap(last'.v)) =>
       /\ last'.outcome = "throw"
       /\ vec' = vec
       /\ heap' = heap]_vars

C5_Witness ==
  /\ last.op = "Insert" /\ last.fail = 2 /\ last.outcome = "throw" /\ last.arg = 1
  /\ Contents("a") = <<1, 2>> /\ Cap("a") = 2

C7_FailureReachesCaller == last.raised => last.outcome = "throw"

\* C8: a call that violates its contract (an index >= size, PopBack on an
\* empty vector, Erase at a position >= size) aborts, and the vectors and
\* the heap are as before the call.
C8_ViolationAborts ==
  [][(\/ last'.op = "At" /\ last'.arg >= Size(last'.v)
      \/ last'.op = "PopBack" /\ Size(last'.v) = 0
      \/ last'.op = "Erase" /\ last'.arg >= Size(last'.v)) =>
       /\ status' = "aborted"
       /\ vec' = vec
       /\ heap' = heap]_vars

\* C9: a copy construction of v from o, or a copy assignment of another
\* vector o to v, that returns gives v the size and the elements of o and
\* leaves o as it was; the capacity of v is the size of o when v is
\* constructed or when the size of o exceeded v's capacity, and v keeps its
\* block and capacity otherwise; v and o do not share a block.
C9_CopyYields ==
  [][((Did("VectorCopy") \/ Did("CopyAssign")) /\ last'.v # last'.o) =>
       LET v == last'.v
           o == last'.o
       IN /\ vec'[v].size_ = Size(o)
          /\ ContentsIn(heap', vec'[v]) = Contents(o)
          /\ vec'[o] = vec[o]
          /\ ContentsIn(heap', vec'[o]) = Contents(o)
          /\ IF last'.op = "VectorCopy" \/ Size(o) > Cap(v)
             THEN Capacity(vec'[v]) = Size(o)
             ELSE vec'[v].data_ = vec[v].data_
          /\ Buf(vec'[v]) # NULL => Buf(vec'[v]) # Buf(vec'[o])]_vars

C9_Witness ==
  /\ Done("CopyAssign") /\ last.v = "a" /\ last.o = "b"
  /\ Contents("a") = <<1, 2>> /\ Cap("a") = 2
  /\ Contents("b") = <<1, 2>> /\ Cap("b") = 2

\* C10: a Resize(n) of a vector of size k that returns sets the size to n,
\* keeps the first min(k, n) elements, makes every element in [k, n) the
\* value-initialised T() and the capacity max(capacity, n).
C10_ResizeYields ==
  [][Did("Resize") =>
       LET v == last'.v
           n == last'.arg
           k == Size(v)
       IN /\ vec'[v].size_ = n
          /\ \A i \in 0..(Min(k, n) - 1) : Get(heap', Buf(vec'[v]), i) = Slot(v, i)
          /\ \A i \in k..(n - 1) : Get(heap', Buf(vec'[v]), i) = DEFAULT
          /\ Capacity(vec'[v]) = Max(Cap(v), n)]_vars

\* a vector of capacity 4 had three elements: it was resized down to one
\* and then up to three
C10_Witness ==
  /\ Done("Resize") /\ last.v = "a" /\ last.arg = 3
  /\ Contents("a") = <<2, DEFAULT, DEFAULT>> /\ Cap("a") = 4

\* C11: v.Swap(o) never throws or aborts; it gives v the block, capacity,
\* size and elements o had and o those v had, and touches no element; a
\* second Swap of the two gives both back what they had, and v.Swap(v)
\* changes nothing.
C11_SwapExchanges ==
  [][last'.op = "Swap" =>
       LET v == last'.v
           o == last'.o
       IN /\ last'.outcome = "return" /\ ~last'.raised
          /\ vec'[v] = vec[o] /\ vec'[o] = vec[v]
          /\ heap' = heap
          /\ ContentsIn(heap', vec'[v]) = Contents(o)
          /\ ContentsIn(heap', vec'[o]) = Contents(v)
          /\ Swap(vec'[v], vec'[o]) = <<vec[v], vec[o]>>
          /\ v = o => vec' = vec]_vars

\* a of one element and capacity 2 was swapped with b of two elements
C11_Witness ==
  /\ Done("Swap") /\ last.v = "a" /\ last.o = "b"
  /\ Contents("a") = <<1, 2>> /\ Cap("a") = 2
  /\ Contents("b") = <<2>> /\ Cap("b") = 2 /\ Buf(vec["b"]) # Buf(vec["a"])

\* C12: a Reserve(c) that returns keeps the size and the elements and makes
\* the capacity max(capacity, c); with c <= capacity it has no fallible step
\* (it allocates nothing) and changes neither the vector nor the heap; a
\* second Reserve(c) allocates nothing and changes nothing.
C12_ReserveYields ==
  [][/\ Did("Reserve") =>
          LET v == last'.v
              c == last'.arg
              again == Reserve(Mach(heap', 0), vec'[v], c)
          IN /\ vec'[v].size_ = Size(v)
             /\ ContentsIn(heap', vec'[v]) = Contents(v)
             /\ Capacity(vec'[v]) = Max(Cap(v), c)
             /\ again.self = vec'[v] /\ again.m.heap = heap' /\ again.m.allocs = 0
     /\ (last'.op = "Reserve" /\ last'.arg <= Cap(last'.v)) =>
          /\ last'.outcome = "return" /\ ~last'.raised
          /\ vec' = vec /\ heap' = heap]_vars

\* a vector of two elements and capacity 2 after Reserve(3)
C12_Witness ==
  /\ Done("Reserve") /\ last.v = "a" /\ last.arg = 3
  /\ Contents("a") = <<1, 2>> /\ Cap("a") = 3

\* this step moves from or into v (move construction, move assignment)
MovedBy(v) == last'.op \in {"VectorMove", "MoveAssign"} /\ v \in {last'.v, last'.o}
\* this step is the first case of a copy assignment to v: rhs.size_ > capacity
CopyAssignFirstCase(v) ==
  /\ last'.op = "CopyAssign" /\ last'.v = v /\ last'.o # v
  /\ Size(last'.o) > Cap(v)
\* this step swaps v with another vector
SwappedBy(v) == last'.op = "Swap" /\ v \in {last'.v, last'.o}

\* C13 as stated: from one call to the next the capacity of a vector does
\* not decrease, unless the call moves from or into the vector or is the
\* first case of a copy assignment to it.
C13_CapacityNeverDecreases ==
  [][\A v \in Vec :
       (alive[v] /\ alive'[v] /\ ~MovedBy(v) /\ ~CopyAssignFirstCase(v))
         => Capacity(vec'[v]) >= Cap(v)]_vars

\* C13 as amended: from one call to the next the capacity of a vector does
\* not decrease, unless the call moves from or into the vector, swaps it
\* with another vector, or is the first case of a copy assignment to it.
C13_CapacityDecreasesOnlyByExchange ==
  [][\A v \in Vec :
       (alive[v] /\ alive'[v] /\ ~MovedBy(v) /\ ~SwappedBy(v) /\ ~CopyAssignFirstCase(v))
         => Capacity(vec'[v]) >= Cap(v)]_vars

\* a of capacity 2 was assigned b of one element and capacity 1, and kept
\* its capacity
C13_Witness ==
  /\ Done("CopyAssign") /\ last.v = "a" /\ last.o = "b"
  /\ Contents("a") = <<1>> /\ Cap("a") = 2
  /\ Contents("b") = <<1>> /\ Cap("b") = 1

\* this step is a call whose first fallible step is the allocation of new
\* storage: an append or an insert with size = capacity, a Reserve or a
\* growing Resize beyond the capacity, the first case of a copy assignment,
\* a copy construction from a vector that is not empty
AllocatesFirst ==
  LET v == last'.v
      o == last'.o
  IN \/ last'.op \in {"PushBack", "Insert"} /\ Size(v) = Cap(v)
     \/ last'.op = "Reserve" /\ last'.arg > Cap(v)
     \/ last'.op = "Resize" /\ last'.arg > Size(v) /\ last'.arg > Cap(v)
     \/ CopyAssignFirstCase(v)
     \/ last'.op = "VectorCopy" /\ Size(o) > 0

\* C14: when the allocation of new storage throws (the first fallible step
\* of a growing call), the call throws to the caller, and the vectors, their
\* blocks and the elements are as before the call.
C14_FailedAllocationLeavesVector ==
  [][(AllocatesFirst /\ last'.fail = 1) =>
       /\ last'.outcome = "throw"
       /\ vec' = vec
       /\ alive' = alive
       /\ heap' = heap]_vars

\* a = b, with b larger than a's capacity, threw at the allocation
C14_Witness ==
  /\ last.op = "CopyAssign" /\ last.fail = 1 /\ last.outcome = "throw"
  /\ last.v = "a" /\ last.o = "b"
  /\ Contents("a") = <<1>> /\ Cap("a") = 1
  /\ Contents("b") = <<2, 2>>

\* the least k with 2^k >= n
RECURSIVE CeilLog2(_)
CeilLog2(n) == IF n <= 1 THEN 0 ELSE 1 + CeilLog2((n + 1) \div 2)

\* C15: after N >= 1 appends to a vector constructed empty, and nothing
\* else, the appends have allocated ceil(log2 N) + 1 blocks, the capacity is
\* the least power of two >= N, and fewer than 3N elements have been
\* constructed (new elements and migrated ones).
C15_AppendCost ==
  (alive["a"] /\ Size("a") >= 1) =>
    LET N == Size("a")
    IN /\ made.allocs = CeilLog2(N) + 1
       /\ Cap("a") = 2 ^ CeilLog2(N)
       /\ made.ctors < 3 * N

\* five appends: blocks of 1, 2, 4 and 8 slots, 5 new and 1 + 2 + 4 migrated
\* elements
C15_Witness ==
  /\ Done("PushBack") /\ Size("a") = 5 /\ Cap("a") = 8
  /\ made.allocs = 4 /\ made.ctors = 12

\* C16: when T migrates by copy and a copy of an old element throws during
\* an Insert at P < size with size = capacity (a fallible step after the
\* allocation and the construction of the new element), the vector is valid
\* afterwards: size <= capacity, every slot in [0, size) holds an element, and
\* the call has neither destroyed nor read a slot that holds no object.
C16_FailedInsertLeavesValid ==
  [][(/\ last'.op = "Insert" /\ ~nothrow
      /\ Size(last'.v) = Cap(last'.v) /\ last'.arg < Size(last'.v)
      /\ last'.fail >= 3) =>
       LET V == vec'[last'.v]
       IN /\ 0 <= V.size_ /\ V.size_ <= Capacity(V)
          /\ \A i \in 0..(V.size_ - 1) : Get(heap', Buf(V), i) \in Elem
          /\ last'.ev \cap {"destroy_raw", "read_raw", "double_free"} = {}]_vars

\* this step is a growing PushBack or Reserve of a T that migrates by copy,
\* in which a copy of an old element threw: the fallible steps are the
\* allocation, in PushBack the construction of the new element, and then
\* the size copies
MigrationCopyFailed ==
  LET v == last'.v
  IN /\ ~nothrow
     /\ \/ last'.op = "PushBack" /\ Size(v) = Cap(v) /\ last'.fail \in 3..(2 + Size(v))
        \/ last'.op = "Reserve" /\ last'.arg > Cap(v) /\ last'.fail \in 2..(1 + Size(v))

\* C17: when T migrates by copy and the k-th copy throws during the
\* migration of a growing PushBack or of Reserve, the call throws to the
\* caller, and the vector, its block and every element are as before.
C17_FailedMigrationLeavesVector ==
  [][MigrationCopyFailed =>
       /\ last'.outcome = "throw"
       /\ vec' = vec
       /\ heap' = heap]_vars

\* the copy of the second of two elements threw in a PushBack that grows
C17_Witness ==
  /\ last.op = "PushBack" /\ last.fail = 4 /\ last.outcome = "throw" /\ ~nothrow
  /\ Contents("a") = <<1, 2>> /\ Cap("a") = 2

\* C18: after every call, each allocated block is the storage of exactly one
\* living vector (no two vectors share a block, no block is left behind by a
\* local RawMemory or Vector of the call), the storage of every living
\* vector is allocated (no block is released while a vector refers to it),
\* and the call has released no block twice.
C18_SingleOwner ==
  /\ \A v \in Vec : (alive[v] /\ Buf(vec[v]) # NULL) => heap[Buf(vec[v])] # << >>
  /\ \A v, w \in Vec :
       (v # w /\ alive[v] /\ alive[w] /\ Buf(vec[v]) # NULL) => Buf(vec[v]) # Buf(vec[w])
  /\ \A p \in Blocks : heap[p] # << >> => \E v \in Vec : alive[v] /\ Buf(vec[v]) = p
  /\ "double_free" \notin last.ev

\* b was move-constructed from a, which held two elements
C18_Witness ==
  /\ Done("VectorMove") /\ last.v = "b" /\ last.o = "a"
  /\ alive["a"] /\ vec["a"] = EmptyVector
  /\ Contents("b") = <<1, 2>> /\ Cap("b") = 2

\* this step is a call that respects its contract
ValidCall ==
  /\ ~(last'.op = "PopBack" /\ Size(last'.v) = 0)
  /\ ~(last'.op = "Erase" /\ last'.arg >= Size(last'.v))

\* C19: a call that respects its contract, returns, and in which nothing
\* threw (the destructor included), made when no earlier failure has left
\* an object outside [0, size) of a vector, releases no block that still
\* holds an object and destroys no slot that holds none; after the
\* destructor the block of the vector is released.
C19_ReleasedBlocksHoldNoElement ==
  [][(/\ last'.outcome = "return" /\ ~last'.raised /\ ValidCall
      /\ \A v \in Vec : alive[v] => WellFormed(heap, vec[v])) =>
       /\ last'.ev \cap {"leak", "destroy_raw", "double_free"} = {}
       /\ (last'.op = "Dtor" /\ Buf(vec[last'.v]) # NULL) =>
             heap'[Buf(vec[last'.v])] = << >>]_vars

\* a, of one element in block 1, was assigned b of two elements: the
\* temporary took a's block and element with it
C19_Witness ==
  /\ Done("CopyAssign") /\ last.v = "a" /\ last.o = "b"
  /\ Contents("a") = <<2, 1>> /\ Buf(vec["a"]) = 3
  /\ Contents("b") = <<2, 1>> /\ Buf(vec["b"]) = 2
  /\ heap[1] = << >>

\* C20: v.PushBack(v[i]) and v.Insert(v.begin() + P, v[i]), for i < size and
\* P <= size, with or without growth, return and leave the vector and the
\* heap exactly as the same call with an object of the caller that holds the
\* value v[i] had before the call: the elements are s ++ [s[i]], or
\* s[0..P) ++ [s[i]] ++ s[P..size).
C20_OwnElementAsArgument ==
  [][/\ last'.op \in {"PushBackOwn", "InsertOwn"} =>
          last'.outcome = "return" /\ last'.ev \cap UBEvents = {}
     /\ Did("PushBackOwn") =>
          LET v == last'.v
              x == Slot(v, last'.val)
              r == PushBack(Mach(heap, 0), vec[v], Val(x))
          IN /\ ContentsIn(heap', vec'[v]) = Append(Contents(v), x)
             /\ vec'[v] = r.self /\ heap' = r.m.heap
     /\ Did("InsertOwn") =>
          LET v == last'.v
              P == last'.arg
              x == Slot(v, last'.val)
              r == Insert(Mach(heap, 0), vec[v], P, Val(x))
          IN /\ ContentsIn(heap', vec'[v]) = InsertSeq(Contents(v), P, x)
             /\ vec'[v] = r.self /\ heap' = r.m.heap /\ last'.ret = r.ret]_vars

\* a held 1, 2 with capacity 4: a.Insert(a.begin(), a[1]), in place
C20_Witness ==
  /\ Done("InsertOwn") /\ last.v = "a" /\ last.arg = 0 /\ last.val = 1
  /\ Contents("a") = <<2, 1, 2>> /\ Cap("a") = 4
====
